---- MODULE Spec2Model ----
(***************************************************************************)
(* Constraint-generation engine of qcongen: the BLP data model             *)
(* (opt_objects/bin_lp.py), the generation loop                            *)
(* (engine/constraint_gen.py), the reference mode (engine/ref_qaoa.py)     *)
(* and the solver drivers (engine/runner.py).                              *)
(*                                                                         *)
(* Number representation.  A, b, c are integer valued.  Floats that occur  *)
(* in the threshold search are embedded order-preservingly in the          *)
(* integers:                                                               *)
(*   - a violation score V/total_samples is held as ScoreUnit * V, i.e. in *)
(*     units of 1/(ScoreUnit * total_samples);                             *)
(*   - t_multiplier is held in twentieths, and an odd value 2q+1 stands    *)
(*     for the double that lies just above q/10 (the drift that the        *)
(*     repeated "t_multiplier - 0.1" produces from 0.7000000000000001 on,  *)
(*     ending in 1.3877787807814457e-16 instead of 0.0);                   *)
(*   - float("inf") is held as PosInf, above every finite value.           *)
(* The embedding agrees with IEEE double evaluation of the source          *)
(* expressions for every total_samples <= 5.                               *)
(***************************************************************************)
EXTENDS Integers, Sequences, FiniteSets, TLC

\* ------------------------------------------------------------------ bounds
NumRows == 2
NumCols == 2
SampleSize == 2
MaxIters == 2

\* ------------------------------------------------------- program constants
INF == 100000000
PosInf == 2147483647
ScoreUnit == 20
OneMultiplier == 20

Rows == 1..NumRows
Cols == 1..NumCols
CoefVals == {0, 1}
RhsVals == {1}
CostVals == {1, INF}
BitVecs == [Cols -> {0, 1}]
NoCopy == [none |-> TRUE]
NoResult == [none |-> TRUE]
\* mutant: the not-found return reports success
NotFound_true == [found |-> TRUE, solution |-> << >>, value |-> PosInf]

\* return False, [], float("inf")
NotFound == [found |-> FALSE, solution |-> << >>, value |-> PosInf]

NoIsing == [none |-> TRUE]

\* aliased: the array fields of cpy that are the same array object as the
\* field of blp (a write through one instance is seen through the other);
\* ising: the IsingHamiltonian last returned by to_ising
NoParams == [none |-> TRUE]
NoQP == [none |-> TRUE]
NoFile == [none |-> TRUE]
NoGen == [none |-> TRUE]

\* init_params: the parameter vector the loop hands to the next QuantumProblem;
\* qp: the QuantumProblem of the iteration in progress, with its init_params
\*     and the result of optimize_circuit;
\* file, parsed: a problem file (its lines) and what MPS_to_BLP made of it;
\* gen: the locals of generate_set_partition_instance
VARIABLES blp, cpy, pc, iteration, X, sample_counts, nu, new_constraints,
          t_multiplier, result, oracle_calls, aliased, ising,
          init_params, qp, file, parsed, gen

vars == << blp, cpy, pc, iteration, X, sample_counts, nu, new_constraints,
           t_multiplier, result, oracle_calls, aliased, ising,
           init_params, qp, file, parsed, gen >>

\* the variables outside the BLP data model and the solver runs
io_vars == << file, parsed, gen >>

\* ----------------------------------------------------------------- helpers
RECURSIVE SumTo(_, _)
SumTo(f, k) == IF k = 0 THEN 0 ELSE f[k] + SumTo(f, k - 1)

Dot(u, v) == SumTo([j \in Cols |-> u[j] * v[j]], NumCols)

Abs(v) == IF v < 0 THEN -v ELSE v

SetMax(S) == CHOOSE v \in S : \A w \in S : w <= v

SetMin(S) == CHOOSE v \in S : \A w \in S : v <= w

RECURSIVE SortedSeq(_)
SortedSeq(S) == IF S = {} THEN << >>
                ELSE << SetMin(S) >> \o SortedSeq(S \ {SetMin(S)})

SeqRange(s) == {s[k] : k \in 1..Len(s)}

\* ------------------------------------------------------------------- BLP
_calculate_M(cvec) == SumTo([j \in Cols |-> Abs(cvec[j])], NumCols)

BLP(Ain, bin, cin) ==
  [A |-> Ain, b |-> bin, c |-> cin,
   active_constraints |-> [i \in Rows |-> 0],
   Ahat |-> [i \in Rows |-> [j \in Cols |-> 0]],
   bhat |-> [i \in Rows |-> 0],
   M |-> _calculate_M(cin)]

copy(self) ==
  [BLP(self.A, self.b, self.c) EXCEPT
     !.active_constraints = self.active_constraints,
     !.Ahat = self.Ahat,
     !.bhat = self.bhat,
     !.M = self.M]

\* mutant: the copy shares the active mask with the original
copy_shares_mask == {"active_constraints"}

\* mutant: the copy shares its three state arrays with the original
copy_shares_all == {"active_constraints", "Ahat", "bhat"}

\* copy() passes .copy() of every array: no array of the new instance is
\* shared with the original
copy_shares == {}

\* the state of instance self after a write that left instance src as given,
\* when the arrays named in fields are shared between the two
Through(self, src, fields) ==
  [self EXCEPT
     !.active_constraints = IF "active_constraints" \in fields
                            THEN src.active_constraints ELSE @,
     !.Ahat = IF "Ahat" \in fields THEN src.Ahat ELSE @,
     !.bhat = IF "bhat" \in fields THEN src.bhat ELSE @]

is_complete(self) == \A i \in Rows : self.active_constraints[i] # 0

\* mutant: the row is added onto Ahat and bhat instead of being assigned
_add_constraint_accumulate(self, cstr_index) ==
  [self EXCEPT !.active_constraints[cstr_index] = 1,
               !.Ahat[cstr_index] =
                  [j \in Cols |-> self.Ahat[cstr_index][j] + self.A[cstr_index][j]],
               !.bhat[cstr_index] = self.bhat[cstr_index] + self.b[cstr_index]]

\* mutant: a second call on a row takes it out of the active set again
_add_constraint_toggle(self, cstr_index) ==
  IF self.active_constraints[cstr_index] = 0
  THEN [self EXCEPT !.active_constraints[cstr_index] = 1,
                    !.Ahat[cstr_index] = self.A[cstr_index],
                    !.bhat[cstr_index] = self.b[cstr_index]]
  ELSE [self EXCEPT !.active_constraints[cstr_index] = 0,
                    !.Ahat[cstr_index] = [j \in Cols |-> 0],
                    !.bhat[cstr_index] = 0]

\* mutant: the row is marked active but bhat is not filled in
_add_constraint_nobhat(self, cstr_index) ==
  [self EXCEPT !.active_constraints[cstr_index] = 1,
               !.Ahat[cstr_index] = self.A[cstr_index]]

_add_constraint(self, cstr_index) ==
  [self EXCEPT !.active_constraints[cstr_index] = 1,
               !.Ahat[cstr_index] = self.A[cstr_index],
               !.bhat[cstr_index] = self.b[cstr_index]]

\* mutant: feasibility tested on the active sub-problem only
is_feasible_active(self, x) == \A i \in Rows : Dot(self.Ahat[i], x) = self.bhat[i]

\* x satisfies every row of the full matrix (residual |A x - b| < 1e-10)
is_feasible(self, x) == \A i \in Rows : Dot(self.A[i], x) = self.b[i]

RECURSIVE check_loop(_, _, _, _)
check_loop(self, Xs, j, acc) ==
  IF j > Len(Xs) THEN acc
  ELSE LET x == Xs[j]
           obj_val == Dot(self.c, x)
       IN IF is_feasible(self, x) /\ obj_val < acc.value
          THEN check_loop(self, Xs, j + 1,
                          [found |-> TRUE, solution |-> x, value |-> obj_val])
          ELSE check_loop(self, Xs, j + 1, acc)

check_feasibility(self, Xs) ==
  check_loop(self, Xs, 1, [found |-> FALSE, solution |-> << >>, value |-> INF])

\* mutant: the count of violating columns is not divided by the sample total
get_violation_scores_unnormalised(self, Xs, total_sample_size) ==
  [i \in Rows |->
     ScoreUnit * total_sample_size
       * Cardinality({j \in 1..Len(Xs) : Dot(self.A[i], Xs[j]) # self.b[i]})]

\* nu[i] = (number of columns of X violating row i) / total_sample_size,
\* held in units of 1/(ScoreUnit * total_sample_size)
get_violation_scores(self, Xs, total_sample_size) ==
  [i \in Rows |->
     ScoreUnit * Cardinality({j \in 1..Len(Xs) : Dot(self.A[i], Xs[j]) # self.b[i]})]

RECURSIVE add_all(_, _, _)
add_all(self, cstrs, k) ==
  IF k > Len(cstrs) THEN self
  ELSE add_all(_add_constraint(self, cstrs[k]), cstrs, k + 1)

\* mutant: rows that are already active are selected again
add_constraints_any(self, scores, t) ==
  LET new_cstrs == SortedSeq({i \in Rows : scores[i] >= t})
  IN [blp |-> add_all(self, new_cstrs, 1), new_cstrs |-> new_cstrs]

\* mutant: the threshold must be exceeded, not just met
add_constraints_strict(self, scores, t) ==
  LET new_cstrs == SortedSeq({i \in Rows : scores[i] > t
                                           /\ self.active_constraints[i] = 0})
  IN [blp |-> add_all(self, new_cstrs, 1), new_cstrs |-> new_cstrs]

add_constraints(self, scores, t) ==
  LET new_cstrs == SortedSeq({i \in Rows : scores[i] >= t
                                           /\ self.active_constraints[i] = 0})
  IN [blp |-> add_all(self, new_cstrs, 1), new_cstrs |-> new_cstrs]

\* ------------------------------------------------- adaptive threshold search
\* max(0.0, t_multiplier - 0.1) in double arithmetic
LowerMultiplier(mu) ==
  IF mu = 16 THEN 15
  ELSE IF mu >= 2 THEN mu - 2
  ELSE 0

\* mutant: the threshold is never below one unit of score
Threshold_positive(mu, maxnu) ==
  IF mu % 2 = 0 THEN (mu * maxnu) \div OneMultiplier + 1
  ELSE ((mu - 1) * maxnu) \div OneMultiplier + 1

\* t_multiplier * max(nu) in double arithmetic
Threshold(mu, maxnu) ==
  IF mu % 2 = 0 THEN (mu * maxnu) \div OneMultiplier
  ELSE ((mu - 1) * maxnu) \div OneMultiplier + (IF maxnu > 0 THEN 1 ELSE 0)

\* mutant: a single attempt at the first threshold, no relaxation
threshold_search_once(self, scores, mu) ==
  LET r == add_constraints(self, scores,
                           Threshold(mu, SetMax({scores[i] : i \in Rows})))
  IN [blp |-> r.blp, new_cstrs |-> r.new_cstrs,
      t_multiplier |-> IF r.new_cstrs # << >> THEN mu ELSE 0]

RECURSIVE threshold_search(_, _, _)
threshold_search(self, scores, mu) ==
  LET t == Threshold(mu, SetMax({scores[i] : i \in Rows}))
      r == add_constraints(self, scores, t)
  IN IF r.new_cstrs # << >>
     THEN [blp |-> r.blp, new_cstrs |-> r.new_cstrs, t_multiplier |-> mu]
     ELSE IF LowerMultiplier(mu) = 0
          THEN [blp |-> r.blp, new_cstrs |-> r.new_cstrs, t_multiplier |-> 0]
          ELSE threshold_search(r.blp, scores, LowerMultiplier(mu))

\* the values of t_multiplier at the calls of add_constraints that the inner
\* while loop makes, in order
RECURSIVE threshold_attempts(_, _, _)
threshold_attempts(self, scores, mu) ==
  LET t == Threshold(mu, SetMax({scores[i] : i \in Rows}))
      r == add_constraints(self, scores, t)
  IN IF r.new_cstrs # << >> \/ LowerMultiplier(mu) = 0
     THEN << mu >>
     ELSE << mu >> \o threshold_attempts(r.blp, scores, LowerMultiplier(mu))

\* --------------------------------------------------------- oracle samples
\* a sample set: distinct bit-vectors (the columns of X, in the order of the
\* oracle's dictionary) with positive counts that sum to the shot budget
RECURSIVE SeqSum(_, _)
SeqSum(s, k) == IF k = 0 THEN 0 ELSE s[k] + SeqSum(s, k - 1)

SampleSets ==
  UNION {{xs \in [1..k -> BitVecs] : \A p, q \in 1..k : p # q => xs[p] # xs[q]}
         : k \in 1..SampleSize}

CountsFor(xs) ==
  {cs \in [1..Len(xs) -> 1..SampleSize] : SeqSum(cs, Len(xs)) = SampleSize}

\* ------------------------------------------------------------------- Init
Init ==
  /\ \E Ain \in [Rows -> [Cols -> CoefVals]], bin \in [Rows -> RhsVals],
        cin \in [Cols -> CostVals] : blp = BLP(Ain, bin, cin)
  /\ cpy = NoCopy
  /\ pc = "idle"
  /\ iteration = 0
  /\ X = << >>
  /\ sample_counts = << >>
  /\ nu = << >>
  /\ new_constraints = << >>
  /\ t_multiplier = OneMultiplier
  /\ result = NoResult
  /\ oracle_calls = 0
  /\ aliased = {}
  /\ ising = NoIsing
  /\ init_params = NoParams
  /\ qp = NoQP
  /\ file = NoFile
  /\ parsed = NoFile
  /\ gen = NoGen

\* ------------------------------------------- caller-level BLP operations
\* blp._add_constraint(i) on the caller's instance or on its copy
Activate ==
  /\ pc = "idle"
  /\ \E i \in Rows :
       \/ /\ blp' = _add_constraint(blp, i)
          /\ cpy' = IF cpy = NoCopy THEN cpy ELSE Through(cpy, blp', aliased)
       \/ /\ cpy # NoCopy
          /\ cpy' = _add_constraint(cpy, i)
          /\ blp' = Through(blp, cpy', aliased)
  /\ UNCHANGED << pc, iteration, X, sample_counts, nu, new_constraints,
                  t_multiplier, result, oracle_calls, aliased, ising >>
  /\ UNCHANGED << init_params, qp >>
  /\ UNCHANGED io_vars

ScoreVals == {0, ScoreUnit}

\* blp.add_constraints(nu, t) with caller-chosen scores and threshold
AddConstraintsCall ==
  /\ pc = "idle"
  /\ \E scores \in [Rows -> ScoreVals], t \in ScoreVals :
       \/ /\ blp' = add_constraints(blp, scores, t).blp
          /\ new_constraints' = add_constraints(blp, scores, t).new_cstrs
          /\ cpy' = IF cpy = NoCopy THEN cpy ELSE Through(cpy, blp', aliased)
       \/ /\ cpy # NoCopy
          /\ cpy' = add_constraints(cpy, scores, t).blp
          /\ new_constraints' = add_constraints(cpy, scores, t).new_cstrs
          /\ blp' = Through(blp, cpy', aliased)
  /\ UNCHANGED << pc, iteration, X, sample_counts, nu, t_multiplier, result,
                  oracle_calls, ising >>
  /\ aliased' = aliased
  /\ UNCHANGED << init_params, qp >>
  /\ UNCHANGED io_vars

\* cpy = blp.copy()
Copy ==
  /\ pc = "idle"
  /\ cpy = NoCopy
  /\ cpy' = copy(blp)
  /\ aliased' = copy_shares
  /\ UNCHANGED << blp, pc, iteration, X, sample_counts, nu, new_constraints,
                  t_multiplier, result, oracle_calls, ising >>
  /\ UNCHANGED << init_params, qp >>
  /\ UNCHANGED io_vars

\* the caller drops its reference to the copy
Release ==
  /\ pc = "idle"
  /\ cpy # NoCopy
  /\ cpy' = NoCopy
  /\ aliased' = {}
  /\ UNCHANGED << blp, pc, iteration, X, sample_counts, nu, new_constraints,
                  t_multiplier, result, oracle_calls, ising >>
  /\ UNCHANGED << init_params, qp >>
  /\ UNCHANGED io_vars

\* ------------------------------------------------------ generation loop
\* parameter vectors of the oracle (opaque to the loop)
ParamVals == {1, 2}

\* mutant: the loop runs one iteration more than the budget
loop_condition_inclusive(it) == it <= MaxIters

\* while iteration < max_iters
loop_condition(it) == it < MaxIters

\* run_constraint_gen(blp, sample_size, t, max_iters): entry, lines 72-74
Start ==
  /\ pc \in {"idle", "ref_done"}
  /\ cpy = NoCopy
  /\ pc' = "loop"
  /\ iteration' = 0
  /\ t_multiplier' = OneMultiplier
  /\ nu' = << >>
  /\ new_constraints' = << >>
  /\ result' = NoResult
  /\ oracle_calls' = 0
  /\ UNCHANGED << blp, cpy, X, sample_counts, aliased, ising >>
  /\ init_params' \in ParamVals
  /\ qp' = NoQP
  /\ UNCHANGED io_vars

\* mutant: the QuantumProblem is seeded with another vector than the one given
QuantumProblem_reseeded(seed, res) ==
  [init_params |-> CHOOSE p \in ParamVals : p # seed, result |-> res]

\* qp = QuantumProblem(hamiltonian=H, sample_size=sample_size,
\*                      init_params=init_params); result = qp.optimize_circuit()
QuantumProblem(seed, res) == [init_params |-> seed, result |-> res]

\* mutant: a run whose optimisation did not converge is given up
after_optimize_strict(res) == IF res.success THEN "sampled" ELSE "MAX_ITERS_REACHED"

\* lines 92-95: result.success only selects the log message, and the loop goes
\* on to sample_circuit
after_optimize(res) == "sampled"

\* while iteration < max_iters: to_ising, optimize_circuit, sample_circuit.
\* nu and new_constraints hold the scores and the activation list of the
\* iteration in progress, so a new iteration starts with both empty.
Sample ==
  /\ pc = "loop"
  /\ loop_condition(iteration)
  /\ \E xs \in SampleSets : \E cs \in CountsFor(xs) :
       /\ X' = xs
       /\ sample_counts' = cs
  /\ nu' = << >>
  /\ new_constraints' = << >>
  /\ oracle_calls' = oracle_calls + 1
  /\ UNCHANGED << blp, cpy, iteration, t_multiplier, result, aliased, ising >>
  /\ \E success \in BOOLEAN, x \in ParamVals :
       /\ qp' = QuantumProblem(init_params, [success |-> success, x |-> x])
       /\ pc' = after_optimize([success |-> success, x |-> x])
  /\ UNCHANGED init_params
  /\ UNCHANGED io_vars

\* lines 109-145: feasibility check, completeness check, scores, threshold
\* search, iteration += 1
Process ==
  /\ pc = "sampled"
  /\ LET chk == check_feasibility(blp, X)
         total_samples == SeqSum(sample_counts, Len(sample_counts))
     IN IF chk.found
        THEN /\ pc' = "FEASIBLE_FOUND"
             /\ result' = chk
             /\ UNCHANGED << blp, iteration, nu, new_constraints, t_multiplier >>
        ELSE IF is_complete(blp)
        THEN /\ pc' = "EXHAUSTED_CONSTRAINTS"
             /\ result' = NotFound
             /\ UNCHANGED << blp, iteration, nu, new_constraints, t_multiplier >>
        ELSE LET scores == get_violation_scores(blp, X, total_samples)
                 r == threshold_search(blp, scores, OneMultiplier)
             IN /\ nu' = scores
                /\ blp' = r.blp
                /\ new_constraints' = r.new_cstrs
                /\ t_multiplier' = r.t_multiplier
                /\ iteration' = iteration + 1
                /\ pc' = "loop"
                /\ result' = result
  /\ X' = << >>
  /\ sample_counts' = << >>
  /\ UNCHANGED << cpy, oracle_calls, aliased, ising >>
  /\ init_params' = IF pc' = "loop" THEN qp.result.x ELSE init_params
  /\ qp' = NoQP
  /\ UNCHANGED io_vars

\* loop condition false: lines 147-155
MaxItersReached ==
  /\ pc = "loop"
  /\ ~loop_condition(iteration)
  /\ pc' = "MAX_ITERS_REACHED"
  /\ result' = NotFound
  /\ UNCHANGED << blp, cpy, iteration, X, sample_counts, nu, new_constraints,
                  t_multiplier, oracle_calls, aliased, ising >>
  /\ UNCHANGED << init_params, qp >>
  /\ UNCHANGED io_vars

\* -------------------------------------------------------- reference mode
\* run_qaoa_solver: run_reference_qaoa(blp.copy(), ...); lines 46-48 of
\* ref_qaoa.py add every constraint to the copy
RunQaoaSolver ==
  /\ pc = "idle"
  /\ cpy = NoCopy
  /\ cpy' = add_all(copy(blp), SortedSeq(Rows), 1)
  /\ aliased' = copy_shares
  /\ blp' = Through(blp, cpy', copy_shares)
  /\ pc' = "ref_wait"
  /\ result' = NoResult
  /\ new_constraints' = << >>
  /\ oracle_calls' = 0
  /\ UNCHANGED << iteration, X, sample_counts, nu, t_multiplier, ising >>
  /\ UNCHANGED << init_params, qp >>
  /\ UNCHANGED io_vars

\* to_ising, optimize_circuit, sample_circuit of the reference run
RefSample ==
  /\ pc = "ref_wait"
  /\ \E xs \in SampleSets : \E cs \in CountsFor(xs) :
       /\ X' = xs
       /\ sample_counts' = cs
  /\ pc' = "ref_sampled"
  /\ oracle_calls' = oracle_calls + 1
  /\ UNCHANGED << blp, cpy, iteration, nu, new_constraints, t_multiplier,
                  result, aliased, ising >>
  /\ UNCHANGED << init_params, qp >>
  /\ UNCHANGED io_vars

\* ref_qaoa.py lines 84-92, then the return of run_qaoa_solver to the driver,
\* which drops the copy
RefFinish ==
  /\ pc = "ref_sampled"
  /\ LET chk == check_feasibility(cpy, X)
     IN result' = IF chk.found THEN chk ELSE NotFound
  /\ cpy' = NoCopy
  /\ X' = << >>
  /\ sample_counts' = << >>
  /\ pc' = "ref_done"
  /\ aliased' = {}
  /\ UNCHANGED << blp, iteration, nu, new_constraints, t_multiplier,
                  oracle_calls, ising >>
  /\ UNCHANGED << init_params, qp >>
  /\ UNCHANGED io_vars

Next ==
  \/ Activate
  \/ AddConstraintsCall
  \/ Copy
  \/ Release
  \/ Start
  \/ Sample
  \/ Process
  \/ MaxItersReached
  \/ RunQaoaSolver
  \/ RefSample
  \/ RefFinish

Spec == Init /\ [][Next]_vars

\* ------------------------------------------------------- oracle failure
\* mutant: a failed oracle call is answered with the not-found return
OracleRaises_swallowed ==
  /\ pc = "loop"
  /\ loop_condition(iteration)
  /\ pc' = "MAX_ITERS_REACHED"
  /\ result' = NotFound
  /\ oracle_calls' = oracle_calls + 1
  /\ UNCHANGED << blp, cpy, iteration, X, sample_counts, nu, new_constraints,
                  t_multiplier, aliased, ising, init_params, qp >>
  /\ UNCHANGED io_vars

\* qp.optimize_circuit() or qp.sample_circuit() raises: run_constraint_gen has
\* no handler around lines 83-99, so the exception leaves the function
OracleRaises ==
  /\ pc = "loop"
  /\ loop_condition(iteration)
  /\ \E call \in {"optimize_circuit", "sample_circuit"} :
       result' = [raised |-> call]
  /\ pc' = "RAISED"
  /\ oracle_calls' = oracle_calls + 1
  /\ UNCHANGED << blp, cpy, iteration, X, sample_counts, nu, new_constraints,
                  t_multiplier, aliased, ising, init_params, qp >>
  /\ UNCHANGED io_vars

FailNext ==
  \/ Activate
  \/ AddConstraintsCall
  \/ Copy
  \/ Release
  \/ Start
  \/ Sample
  \/ Process
  \/ MaxItersReached
  \/ RunQaoaSolver
  \/ RefSample
  \/ RefFinish
  \/ OracleRaises

FailSpec == Init /\ [][FailNext]_vars

\* ------------------------------------------- threshold search on its own
\* score vectors of a batch with 11 unique vectors: a row violated by none, by
\* one or by all of them
FineScoreVals == {0, ScoreUnit, 11 * ScoreUnit}

ThresholdInit ==
  /\ \E Ain \in [Rows -> [Cols -> CoefVals]], bin \in [Rows -> RhsVals] :
       blp = BLP(Ain, bin, [j \in Cols |-> 1])
  /\ cpy = NoCopy
  /\ pc = "idle"
  /\ iteration = 0
  /\ X = << >>
  /\ sample_counts = << >>
  /\ nu = << >>
  /\ new_constraints = << >>
  /\ t_multiplier = OneMultiplier
  /\ result = NoResult
  /\ oracle_calls = 0
  /\ aliased = {}
  /\ ising = NoIsing
  /\ init_params = NoParams
  /\ qp = NoQP
  /\ file = NoFile
  /\ parsed = NoFile
  /\ gen = NoGen

\* lines 125-142 applied to a score vector: the search reads nothing but nu and
\* the active mask
ThresholdSearchCall ==
  /\ pc = "idle"
  /\ \E scores \in [Rows -> FineScoreVals] :
       LET r == threshold_search(blp, scores, OneMultiplier)
       IN /\ nu' = scores
          /\ blp' = r.blp
          /\ new_constraints' = r.new_cstrs
          /\ t_multiplier' = r.t_multiplier
  /\ UNCHANGED << cpy, pc, iteration, X, sample_counts, result, oracle_calls,
                  aliased, ising, init_params, qp >>
  /\ UNCHANGED io_vars

ThresholdNext ==
  \/ Activate
  \/ ThresholdSearchCall

ThresholdSpec == ThresholdInit /\ [][ThresholdNext]_vars

\* ------------------------------------------------- persisted problem format
\* A file is the sequence of its lines and a line the sequence of its
\* whitespace-separated fields (what line.strip().split() returns).  A field
\* is a pair: its text, and the number that follows the text in "X3" or
\* "ELEM2" or that a numeric field such as "5" denotes (0 when there is none).
Tok(text) == << text, 0 >>
Elem(i) == << "ELEM", i >>
Xcol(j) == << "X", j >>
Num(v) == << "num", v >>

\* the lines that toMPS writes for column j (lines 144-157): the column name is
\* written with the cost only, and again after every second row entry
RECURSIVE ColumnLines(_, _, _, _, _, _)
ColumnLines(self, j, nonzero_rows, idx, line, done) ==
  IF idx = Len(nonzero_rows) THEN done \o << line >>
  ELSE LET i == nonzero_rows[idx + 1]
           entry == << Elem(i), Num(self.A[i][j]) >>
       IN IF idx > 0 /\ idx % 2 = 0
          THEN ColumnLines(self, j, nonzero_rows, idx + 1,
                           << Xcol(j) >> \o entry, done \o << line >>)
          ELSE ColumnLines(self, j, nonzero_rows, idx + 1, line \o entry, done)

RECURSIVE ConcatTo(_, _)
ConcatTo(f, k) == IF k = 0 THEN << >> ELSE ConcatTo(f, k - 1) \o f[k]

toMPS(self) ==
     << << Tok("NAME"), Tok("SET_PARTITION") >>, << Tok("ROWS") >>,
        << Tok("N"), Tok("COST") >> >>
  \o [i \in Rows |-> << Tok("E"), Elem(i) >>]
  \o << << Tok("COLUMNS") >> >>
  \o ConcatTo([j \in Cols |->
                 ColumnLines(self, j,
                             SortedSeq({i \in Rows : self.A[i][j] # 0}), 0,
                             IF self.c[j] # 0
                             THEN << Xcol(j), Tok("COST"), Num(self.c[j]) >>
                             ELSE << >>,
                             << >>)], NumCols)
  \o << << Tok("RHS") >> >>
  \o ConcatTo([i \in Rows |->
                 IF self.b[i] # 0
                 THEN << << Tok("RHS"), Elem(i), Num(self.b[i]) >> >>
                 ELSE << >>], NumRows)
  \o << << Tok("BOUNDS") >> >>
  \o [j \in Cols |-> << Tok("BV"), Tok("BND1"), Xcol(j) >>]
  \o << << Tok("ENDATA") >> >>

\* the section names of line 47, and for each field text that occurs in a
\* file the section name it starts with ("" when it starts with none)
SectionNames == {"ROWS", "COLUMNS", "RHS", "BOUNDS", "ENDATA"}

StartsWithSection(text) ==
  IF text \in SectionNames THEN text
  ELSE IF text = "ROWSX" THEN "ROWS"
  ELSE IF text = "COLUMNSX" THEN "COLUMNS"
  ELSE IF text = "RHSX" THEN "RHS"
  ELSE IF text = "BOUNDSX" THEN "BOUNDS"
  ELSE IF text = "ENDATAX" THEN "ENDATA"
  ELSE ""

\* list.index(x); 0 stands for the ValueError of a missing element
Index(seq, x) ==
  IF \E k \in 1..Len(seq) : seq[k] = x
  THEN SetMin({k \in 1..Len(seq) : seq[k] = x})
  ELSE 0

NoName == << "", 0 >>

ParseStart ==
  [current_section |-> "", rows |-> << >>, coeffs |-> << >>, rhs |-> << >>,
   col_names |-> << >>, row_names |-> << >>, obj_name |-> NoName,
   raised |-> FALSE]

\* dict[name] = value on a dict held as the sequence of its items
DictSet(items, name, value) ==
  IF \E k \in 1..Len(items) : items[k][1] = name
  THEN [k \in 1..Len(items) |->
          IF items[k][1] = name THEN << name, value >> ELSE items[k]]
  ELSE Append(items, << name, value >>)

\* the (row_name, value) pairs of a COLUMNS line: fields 1-2, 3-4, ...
ColumnPairs(fields) == {i \in 2..Len(fields) : i % 2 = 0 /\ i + 1 <= Len(fields)}

RECURSIVE AppendPairs(_, _, _)
AppendPairs(coeffs, fields, i) ==
  IF i + 1 > Len(fields) THEN coeffs
  ELSE AppendPairs(Append(coeffs, [col |-> fields[1], row |-> fields[i],
                                   val |-> fields[i + 1][2]]),
                   fields, i + 2)

\* the body of "for line in f" (lines 38-82) for one line
ParseLine(st, line) ==
  IF st.raised \/ line = << >> THEN st
  ELSE IF line[1][1] = "NAME" THEN [st EXCEPT !.current_section = "NAME"]
  ELSE IF StartsWithSection(line[1][1]) # "" /\ Len(line) = 1
  THEN [st EXCEPT !.current_section = line[1][1]]
  ELSE IF st.current_section = "ROWS"
  THEN IF Len(line) # 2 THEN [st EXCEPT !.raised = TRUE]
       ELSE IF line[1][1] = "N"
       THEN [st EXCEPT !.rows = DictSet(st.rows, line[2], line[1][1]),
                       !.obj_name = line[2]]
       ELSE [st EXCEPT !.rows = DictSet(st.rows, line[2], line[1][1]),
                       !.row_names = Append(st.row_names, line[2])]
  ELSE IF st.current_section = "COLUMNS"
  THEN IF \E i \in ColumnPairs(line) : line[i + 1][1] # "num"
       THEN [st EXCEPT !.raised = TRUE]
       ELSE [st EXCEPT
               !.col_names = IF Index(st.col_names, line[1]) = 0
                             THEN Append(st.col_names, line[1]) ELSE @,
               !.coeffs = AppendPairs(st.coeffs, line, 2)]
  ELSE IF st.current_section = "RHS"
  THEN IF Len(line) < 3 THEN st
       ELSE IF line[3][1] # "num" THEN [st EXCEPT !.raised = TRUE]
       ELSE IF Len(line) < 5
       THEN [st EXCEPT !.rhs = DictSet(st.rhs, line[2], line[3][2])]
       ELSE IF line[5][1] # "num" THEN [st EXCEPT !.raised = TRUE]
       ELSE [st EXCEPT !.rhs = DictSet(DictSet(st.rhs, line[2], line[3][2]),
                                       line[4], line[5][2])]
  ELSE st

RECURSIVE ParseLines(_, _, _)
ParseLines(st, lines, k) ==
  IF k > Len(lines) THEN st ELSE ParseLines(ParseLine(st, lines[k]), lines, k + 1)

ParseError == [ok |-> FALSE]

\* the value a later assignment leaves in a cell: the last coefficient written
LastVal(coeffs, ks) == IF ks = {} THEN 0 ELSE coeffs[SetMax(ks)].val

\* MPS_to_BLP(path) on the lines of the file; the result is the data the BLP is
\* built from, or ParseError for a ValueError
MPS_to_BLP(lines) ==
  LET st == ParseLines(ParseStart, lines, 1)
      m == Len(st.row_names)
      n == Len(st.col_names)
  IN IF st.raised THEN ParseError
     ELSE IF \E k \in 1..Len(st.rows) :
               st.rows[k][1] # st.obj_name /\ st.rows[k][2] # "E"
     THEN ParseError
     ELSE IF \E k \in 1..Len(st.coeffs) :
               st.coeffs[k].row # st.obj_name
               /\ Index(st.row_names, st.coeffs[k].row) = 0
     THEN ParseError
     ELSE [ok |-> TRUE, m |-> m, n |-> n,
           A |-> [i \in 1..m |-> [j \in 1..n |->
                    LastVal(st.coeffs,
                            {k \in 1..Len(st.coeffs) :
                               /\ st.coeffs[k].row # st.obj_name
                               /\ Index(st.row_names, st.coeffs[k].row) = i
                               /\ Index(st.col_names, st.coeffs[k].col) = j})]],
           b |-> [i \in 1..m |->
                    LastVal([k \in 1..Len(st.rhs) |-> [val |-> st.rhs[k][2]]],
                            {k \in 1..Len(st.rhs) :
                               Index(st.row_names, st.rhs[k][1]) = i})],
           c |-> [j \in 1..n |->
                    LastVal(st.coeffs,
                            {k \in 1..Len(st.coeffs) :
                               /\ st.coeffs[k].row = st.obj_name
                               /\ Index(st.col_names, st.coeffs[k].col) = j})]]

\* data of the instances that are written and read back
MpsRhsVals == {0, 1}
MpsCostVals == {0, 1}

\* header lines and row types that an edited file can contain
MalformedHeaders == {"ROWSX", "ROW", "COLUMNSX", "COLUMN", "RHSX", "RH",
                     "BOUNDSX", "BOUND", "ENDATAX", "ENDAT"}
OtherRowTypes == {"L", "G"}

MpsInit ==
  /\ \E Ain \in [Rows -> [Cols -> CoefVals]], bin \in [Rows -> MpsRhsVals],
        cin \in [Cols -> MpsCostVals] : blp = BLP(Ain, bin, cin)
  /\ cpy = NoCopy
  /\ pc = "idle"
  /\ iteration = 0
  /\ X = << >>
  /\ sample_counts = << >>
  /\ nu = << >>
  /\ new_constraints = << >>
  /\ t_multiplier = OneMultiplier
  /\ result = NoResult
  /\ oracle_calls = 0
  /\ aliased = {}
  /\ ising = NoIsing
  /\ init_params = NoParams
  /\ qp = NoQP
  /\ file = NoFile
  /\ parsed = NoFile
  /\ gen = NoGen

core_vars == << blp, cpy, pc, iteration, X, sample_counts, nu, new_constraints,
                t_multiplier, result, oracle_calls, aliased, ising,
                init_params, qp >>

\* blp.toMPS(path)
WriteMps ==
  /\ file = NoFile
  /\ file' = toMPS(blp)
  /\ UNCHANGED << parsed, gen >>
  /\ UNCHANGED core_vars

\* someone else's file: a written file in which one section header is
\* misspelt
EditHeader ==
  /\ file # NoFile
  /\ file = toMPS(blp)
  /\ parsed = NoFile
  /\ \E k \in 1..Len(file) : \E h \in MalformedHeaders :
       /\ Len(file[k]) = 1
       /\ file[k][1][1] \in SectionNames
       /\ file' = [file EXCEPT ![k] = << Tok(h) >>]
  /\ UNCHANGED << parsed, gen >>
  /\ UNCHANGED core_vars

\* someone else's file: a written file in which one constraint row is
\* declared with another type than E
EditRowType ==
  /\ file # NoFile
  /\ file = toMPS(blp)
  /\ parsed = NoFile
  /\ \E k \in 1..Len(file) : \E ty \in OtherRowTypes :
       /\ Len(file[k]) = 2
       /\ file[k][1] = Tok("E")
       /\ file' = [file EXCEPT ![k] = << Tok(ty), file[k][2] >>]
  /\ UNCHANGED << parsed, gen >>
  /\ UNCHANGED core_vars

\* MPS_to_BLP(path)
ReadMps ==
  /\ file # NoFile
  /\ parsed = NoFile
  /\ parsed' = MPS_to_BLP(file)
  /\ UNCHANGED << file, gen >>
  /\ UNCHANGED core_vars

MpsNext ==
  \/ WriteMps
  \/ EditHeader
  \/ EditRowType
  \/ ReadMps

MpsSpec == MpsInit /\ [][MpsNext]_vars

\* ------------------------------------------------------ instance generator
\* largest n_sets and n_elements the generator is called with
GenMaxSets == 2
GenMaxElements == 3

GenSizeVals == {1, 2}
GenCostVals == {1, 2}

\* max_attempts of the partition phase (line 84) and of the random phase
\* (line 95)
PartitionAttempts == 10
RandomAttempts == 100

\* elements are numbered from 1 here, from 0 in the code
universe(n_elements) == 1..n_elements

SubsetsOfSize(S, size) == {T \in SUBSET S : Cardinality(T) = size}

\* every list partition_set(elements, min_size, max_size) can return
RECURSIVE partition_set(_, _, _)
partition_set(remaining, min_size, max_size) ==
  IF remaining = {} THEN {<< >>}
  ELSE IF Cardinality(remaining) <= max_size THEN {<< remaining >>}
  ELSE LET max_current_size ==
             IF max_size <= Cardinality(remaining) - min_size
             THEN max_size ELSE Cardinality(remaining) - min_size
       IN IF max_current_size < min_size THEN {<< remaining >>}
          ELSE UNION {UNION {{<< subset >> \o rest :
                               rest \in partition_set(remaining \ subset,
                                                      min_size, max_size)} :
                             subset \in SubsetsOfSize(remaining, size)} :
                      size \in min_size..max_current_size}

\* "for s in partition: if s not in all_sets: all_sets.append(s)"
RECURSIVE AppendNew(_, _, _)
AppendNew(all_sets, partition, k) ==
  IF k > Len(partition) THEN all_sets
  ELSE AppendNew(IF Index(all_sets, partition[k]) = 0
                 THEN Append(all_sets, partition[k]) ELSE all_sets,
                 partition, k + 1)

ShuffleOrders(n) ==
  {p \in [1..n -> 1..n] : \A i, j \in 1..n : p[i] = p[j] => i = j}

\* lines 125-131 for one recorded partition: the assertion holds
PartitionFeasible(all_sets, A, partition, n_elements, n_sets) ==
  LET solution == [j \in 1..n_sets |->
                     IF \E k \in 1..Len(partition) :
                          Index(all_sets, partition[k]) = j
                     THEN 1 ELSE 0]
  IN \A e \in 1..n_elements :
       SumTo([j \in 1..n_sets |-> A[e][j] * solution[j]], n_sets) = 1

GenInit ==
  /\ blp = NoCopy
  /\ cpy = NoCopy
  /\ pc = "idle"
  /\ iteration = 0
  /\ X = << >>
  /\ sample_counts = << >>
  /\ nu = << >>
  /\ new_constraints = << >>
  /\ t_multiplier = OneMultiplier
  /\ result = NoResult
  /\ oracle_calls = 0
  /\ aliased = {}
  /\ ising = NoIsing
  /\ init_params = NoParams
  /\ qp = NoQP
  /\ file = NoFile
  /\ parsed = NoFile
  /\ gen = NoGen

GenRaised == [at |-> "raised"]

\* generate_set_partition_instance(...) up to the first loop (lines 70-85)
Generate ==
  /\ gen = NoGen
  /\ \E n_sets \in 0..GenMaxSets, n_elements \in 0..GenMaxElements,
        min_set_size \in GenSizeVals, max_set_size \in GenSizeVals,
        min_cost \in GenCostVals, max_cost \in GenCostVals :
       gen' = IF \/ n_sets < 1 \/ n_elements < 1
                 \/ min_set_size > max_set_size
                 \/ min_cost > max_cost
              THEN GenRaised
              ELSE [at |-> "partition", n_sets |-> n_sets,
                    n_elements |-> n_elements,
                    min_set_size |-> min_set_size,
                    max_set_size |-> IF max_set_size > n_elements
                                     THEN n_elements ELSE max_set_size,
                    min_cost |-> min_cost, max_cost |-> max_cost,
                    all_sets |-> << >>, feasible_partitions |-> << >>,
                    attempt |-> 0]
  /\ UNCHANGED << file, parsed >>
  /\ UNCHANGED core_vars

\* one pass of the first loop (lines 86-93)
PartitionAttempt ==
  /\ gen # NoGen
  /\ gen.at = "partition"
  /\ Len(gen.all_sets) < gen.n_sets
  /\ gen.attempt < PartitionAttempts
  /\ \E partition \in partition_set(universe(gen.n_elements),
                                    gen.min_set_size, gen.max_set_size) :
       gen' = IF Len(gen.all_sets) + Len(partition) <= gen.n_sets
              THEN [gen EXCEPT
                      !.feasible_partitions = Append(@, partition),
                      !.all_sets = AppendNew(@, partition, 1),
                      !.attempt = @ + 1]
              ELSE [gen EXCEPT !.attempt = @ + 1]
  /\ UNCHANGED << file, parsed >>
  /\ UNCHANGED core_vars

\* the first loop ends (lines 86, 95-96)
PartitionDone ==
  /\ gen # NoGen
  /\ gen.at = "partition"
  /\ ~(Len(gen.all_sets) < gen.n_sets /\ gen.attempt < PartitionAttempts)
  /\ gen' = [gen EXCEPT !.at = "random", !.attempt = 0]
  /\ UNCHANGED << file, parsed >>
  /\ UNCHANGED core_vars

\* one pass of the second loop (lines 97-102); random.randint raises
\* ValueError on an empty range
RandomAttempt ==
  /\ gen # NoGen
  /\ gen.at = "random"
  /\ Len(gen.all_sets) < gen.n_sets
  /\ gen.attempt < RandomAttempts
  /\ IF gen.min_set_size > gen.max_set_size
     THEN gen' = GenRaised
     ELSE \E size \in gen.min_set_size..gen.max_set_size :
            \E new_set \in SubsetsOfSize(universe(gen.n_elements), size) :
              gen' = [gen EXCEPT
                        !.all_sets = IF Index(@, new_set) = 0
                                     THEN Append(@, new_set) ELSE @,
                        !.attempt = @ + 1]
  /\ UNCHANGED << file, parsed >>
  /\ UNCHANGED core_vars

\* the second loop ends and the instance is built, checked and returned
\* (lines 97, 104-137)
GenerateReturn ==
  /\ gen # NoGen
  /\ gen.at = "random"
  /\ ~(Len(gen.all_sets) < gen.n_sets /\ gen.attempt < RandomAttempts)
  /\ IF Len(gen.all_sets) < gen.n_sets
     THEN gen' = GenRaised
     ELSE \E costs \in [1..gen.n_sets -> gen.min_cost..gen.max_cost],
             shuffled_indices \in ShuffleOrders(gen.n_sets) :
            LET all_sets == [j \in 1..gen.n_sets |->
                               gen.all_sets[shuffled_indices[j]]]
                A == [e \in 1..gen.n_elements |-> [j \in 1..gen.n_sets |->
                        IF e \in all_sets[j] THEN 1 ELSE 0]]
            IN gen' = IF \A k \in 1..Len(gen.feasible_partitions) :
                           PartitionFeasible(all_sets, A,
                                             gen.feasible_partitions[k],
                                             gen.n_elements, gen.n_sets)
                      THEN [at |-> "returned", n_sets |-> gen.n_sets,
                            n_elements |-> gen.n_elements,
                            feasible_partitions |-> gen.feasible_partitions,
                            A |-> A,
                            b |-> [e \in 1..gen.n_elements |-> 1],
                            c |-> [j \in 1..gen.n_sets |->
                                     costs[shuffled_indices[j]]]]
                      ELSE [at |-> "assertion_failed"]
  /\ UNCHANGED << file, parsed >>
  /\ UNCHANGED core_vars

GenNext ==
  \/ Generate
  \/ PartitionAttempt
  \/ PartitionDone
  \/ RandomAttempt
  \/ GenerateReturn

GenSpec == GenInit /\ [][GenNext]_vars

\* ----------------------------------------------------------- energy model
\* Ahat.T @ Ahat
AhatT_Ahat(self) ==
  [j \in Cols |-> [k \in Cols |->
     SumTo([i \in Rows |-> self.Ahat[i][j] * self.Ahat[i][k]], NumRows)]]

\* bhat.T @ Ahat
bhat_Ahat(self) ==
  [j \in Cols |-> SumTo([i \in Rows |-> self.bhat[i] * self.Ahat[i][j]], NumRows)]

\* mutant: the constant keeps sum(c) without the factor 1/2
to_ising_nohalf(self) ==
  LET AA == AhatT_Ahat(self)
      bA == bhat_Ahat(self)
  IN [J |-> [j \in Cols |-> [k \in Cols |-> -(self.M * AA[j][k])]],
      h |-> [j \in Cols |->
               self.c[j] - (2 * self.M * bA[j]
                            + self.M * SumTo([k \in Cols |-> AA[k][j]], NumCols))],
      mu |-> -1,
      constant |->
          self.M * SumTo([j \in Cols |-> SumTo(AA[j], NumCols)], NumCols)
        + 4 * SumTo(self.c, NumCols)
        + 4 * self.M * SumTo(bA, NumCols)
        + 4 * self.M * SumTo([i \in Rows |-> self.bhat[i] * self.bhat[i]], NumRows)]

\* to_ising().  J and constant are held in quarters (the source multiplies by
\* 0.25 and 0.5) and mu in halves (-0.5 is held as -1); h is held as it is.
\*   J = -0.25 * M * AhatT_Ahat
\*   h = c - (2 * M * bhat_Ahat + M * ones @ AhatT_Ahat)
\*   const = 0.25 * M * ones @ AhatT_Ahat @ ones + 0.5 * ones @ c
\*           + M * bhat_Ahat @ ones + M * (bhat @ bhat)
to_ising(self) ==
  LET AA == AhatT_Ahat(self)
      bA == bhat_Ahat(self)
  IN [J |-> [j \in Cols |-> [k \in Cols |-> -(self.M * AA[j][k])]],
      h |-> [j \in Cols |->
               self.c[j] - (2 * self.M * bA[j]
                            + self.M * SumTo([k \in Cols |-> AA[k][j]], NumCols))],
      mu |-> -1,
      constant |->
          self.M * SumTo([j \in Cols |-> SumTo(AA[j], NumCols)], NumCols)
        + 2 * SumTo(self.c, NumCols)
        + 4 * self.M * SumTo(bA, NumCols)
        + 4 * self.M * SumTo([i \in Rows |-> self.bhat[i] * self.bhat[i]], NumRows)]

\* H(sigma) = -sum(i,j) J[i,j] sigma[i] sigma[j] - mu sum(i) h[i] sigma[i],
\* in quarters
Hamiltonian(H, sigma) ==
    - SumTo([j \in Cols |->
               SumTo([k \in Cols |-> H.J[j][k] * sigma[j] * sigma[k]], NumCols)],
            NumCols)
    - 2 * H.mu * SumTo([j \in Cols |-> H.h[j] * sigma[j]], NumCols)

\* cost vectors of the instances on which the energy model is examined
IsingCostVals == {-1, 0, 1}

IsingInit ==
  /\ \E Ain \in [Rows -> [Cols -> CoefVals]], bin \in [Rows -> RhsVals],
        cin \in [Cols -> IsingCostVals] : blp = BLP(Ain, bin, cin)
  /\ cpy = NoCopy
  /\ pc = "idle"
  /\ iteration = 0
  /\ X = << >>
  /\ sample_counts = << >>
  /\ nu = << >>
  /\ new_constraints = << >>
  /\ t_multiplier = OneMultiplier
  /\ result = NoResult
  /\ oracle_calls = 0
  /\ aliased = {}
  /\ ising = NoIsing
  /\ init_params = NoParams
  /\ qp = NoQP
  /\ file = NoFile
  /\ parsed = NoFile
  /\ gen = NoGen

\* H = blp.to_ising()
ToIsing ==
  /\ pc = "idle"
  /\ ising' = to_ising(blp)
  /\ UNCHANGED << blp, cpy, pc, iteration, X, sample_counts, nu,
                  new_constraints, t_multiplier, result, oracle_calls, aliased >>
  /\ UNCHANGED << init_params, qp >>
  /\ UNCHANGED io_vars

IsingNext ==
  \/ Activate
  \/ AddConstraintsCall
  \/ Copy
  \/ Release
  \/ ToIsing

IsingSpec == IsingInit /\ [][IsingNext]_vars

\* ------------------------------------------------------------ type check
TypeOK ==
  /\ pc \in {"idle", "loop", "sampled", "FEASIBLE_FOUND",
             "EXHAUSTED_CONSTRAINTS", "MAX_ITERS_REACHED", "ref_wait",
             "ref_sampled", "ref_done", "RAISED"}
  /\ iteration \in 0..MaxIters
  /\ \A i \in Rows : blp.active_constraints[i] \in {0, 1}

\* =================================================================== claims
Instances == {blp} \cup (IF cpy = NoCopy THEN {} ELSE {cpy})

Terminal == {"FEASIBLE_FOUND", "EXHAUSTED_CONSTRAINTS", "MAX_ITERS_REACHED"}

ZeroRow == [j \in Cols |-> 0]

ActiveRows(self) == {i \in Rows : self.active_constraints[i] # 0}

\* the sample set of the iteration in progress holds a vector with A x = b
HasFeasible(self, Xs) == \E j \in 1..Len(Xs) : is_feasible(self, Xs[j])

\* C1: in every reachable state, for every instance and every row i: an
\* active row has Ahat[i,:] = A[i,:] and bhat[i] = b[i], an inactive row has
\* Ahat[i,:] all-zero and bhat[i] = 0.
C1_ActiveRowsMirrored ==
  \A self \in Instances : \A i \in Rows :
    IF self.active_constraints[i] # 0
    THEN self.Ahat[i] = self.A[i] /\ self.bhat[i] = self.b[i]
    ELSE self.Ahat[i] = ZeroRow /\ self.bhat[i] = 0

\* a generation-loop iteration has activated a row and left another inactive
C1_Witness ==
  /\ pc = "loop"
  /\ new_constraints # << >>
  /\ ActiveRows(blp) # {}
  /\ ActiveRows(blp) # Rows

\* C5: the loop's result has found = true exactly in FEASIBLE_FOUND; in
\* EXHAUSTED_CONSTRAINTS and MAX_ITERS_REACHED it is the not-found value
\* (false, empty solution, sentinel), a returned value and not an error.
C5_FoundIffFeasibleFound ==
  pc \in Terminal =>
    /\ result # NoResult
    /\ result.found <=> pc = "FEASIBLE_FOUND"
    /\ pc # "FEASIBLE_FOUND" =>
         result = [found |-> FALSE, solution |-> << >>, value |-> PosInf]

\* the loop ended without a solution after using up its iteration budget
C5_Witness == pc = "MAX_ITERS_REACHED" /\ iteration = MaxIters

\* C9 (as claimed): check_feasibility finds a solution iff some candidate
\* satisfies every row; the solution found satisfies every row, has the
\* least objective among the passing candidates and bestValue is that
\* objective; otherwise it returns (false, empty, sentinel).
C9_CheckFeasibilityExact ==
  pc \in {"sampled", "ref_sampled"} =>
    LET self == IF pc = "sampled" THEN blp ELSE cpy
        chk == check_feasibility(self, X)
        passing == {j \in 1..Len(X) : is_feasible(self, X[j])}
    IN /\ chk.found <=> passing # {}
       /\ chk.found =>
            /\ \E j \in passing : chk.solution = X[j]
            /\ chk.value = Dot(self.c, chk.solution)
            /\ \A j \in passing : chk.value <= Dot(self.c, X[j])
       /\ ~chk.found => chk.solution = << >> /\ chk.value = INF

C2_FeasibleSampleEndsLoop ==
  [][/\ (pc = "sampled" /\ HasFeasible(blp, X)) =>
          /\ pc' = "FEASIBLE_FOUND"
          /\ result'.found
          /\ is_feasible(blp, result'.solution)
          /\ result'.value = Dot(blp.c, result'.solution)
          /\ blp' = blp
     /\ pc = "FEASIBLE_FOUND" => blp' = blp]_vars

\* steps of the run still possible in the worst case: each step of a running
\* loop lowers it, and it is 0 in the terminal states
RunRank ==
  IF pc = "loop" THEN 2 * (MaxIters - iteration) + 2
  ELSE IF pc = "sampled" THEN 2 * (MaxIters - iteration) + 1
  ELSE 0

\* C3: whatever the oracle returns, the loop makes at most max_iters oracle
\* round-trips and ends in one of the three terminal states: every step of a
\* running loop brings it strictly closer to a terminal state (so no run goes
\* on for ever), and it ends in MAX_ITERS_REACHED exactly after max_iters
\* iterations that neither found a feasible sample nor found the program
\* complete.
C3_Budget ==
  /\ pc \in {"loop", "sampled"} \cup Terminal => oracle_calls <= MaxIters
  /\ pc = "sampled" => oracle_calls = iteration + 1
  /\ pc = "MAX_ITERS_REACHED" => iteration = MaxIters /\ oracle_calls = MaxIters
  /\ pc \in {"FEASIBLE_FOUND", "EXHAUSTED_CONSTRAINTS"} => iteration < MaxIters

C3_Step ==
  pc \in {"loop", "sampled"} =>
    /\ pc' \in {"loop", "sampled"} \cup Terminal
    /\ RunRank' < RunRank
    /\ pc' = "MAX_ITERS_REACHED" <=> (pc = "loop" /\ iteration = MaxIters)

\* C3: every step of a running loop stays within the max_iters oracle budget
\* and strictly lowers the rank, so the loop ends in a terminal state.
C3_TerminatesWithinBudget ==
  [][/\ C3_Budget /\ C3_Budget'
     /\ RunRank' >= 0
     /\ C3_Step]_vars

\* the whole budget was spent on iterations that found nothing
C3_Witness ==
  /\ pc = "MAX_ITERS_REACHED"
  /\ oracle_calls = MaxIters
  /\ result = NotFound

\* C4 (as claimed): an iteration ends in EXHAUSTED_CONSTRAINTS iff its sample
\* set holds no feasible vector and every row is active; no scores are
\* computed and nothing is activated in it.
C4_ExhaustedIffNoFeasibleAndComplete ==
  [][pc = "sampled" =>
       /\ pc' = "EXHAUSTED_CONSTRAINTS"
            <=> (~HasFeasible(blp, X) /\ is_complete(blp))
       /\ pc' = "EXHAUSTED_CONSTRAINTS" =>
            nu' = << >> /\ new_constraints' = << >> /\ blp' = blp]_vars

\* C6 (as claimed): an iteration that reaches the threshold search with
\* max(violationScores) > 0 activates at least one inactive row.
C6_PositiveMaxActivates ==
  [][(pc = "sampled" /\ pc' = "loop" /\ SetMax({nu'[i] : i \in Rows}) > 0) =>
       \E i \in Rows : blp.active_constraints[i] = 0
                       /\ blp'.active_constraints[i] = 1]_vars

\* C6 (amended): an iteration that reaches the threshold search with a
\* positive violation score on some inactive row activates at least one
\* inactive row.
C6_PositiveInactiveActivates ==
  [][(/\ pc = "sampled" /\ pc' = "loop"
      /\ \E i \in Rows : blp.active_constraints[i] = 0 /\ nu'[i] > 0) =>
       \E i \in Rows : blp.active_constraints[i] = 0
                       /\ blp'.active_constraints[i] = 1]_vars

\* a row was activated only after the threshold had been relaxed, while
\* another row scored higher
C6_Witness ==
  /\ pc = "loop"
  /\ new_constraints # << >>
  /\ t_multiplier < OneMultiplier
  /\ \E i \in SeqRange(new_constraints) : nu[i] > 0

IsOptimal(self, x) ==
  /\ is_feasible(self, x)
  /\ \A y \in BitVecs : is_feasible(self, y) => Dot(self.c, x) <= Dot(self.c, y)

\* C8 (as claimed): on a fresh program whose first sample set holds the true
\* optimal assignment, the loop ends in FEASIBLE_FOUND after one iteration
\* with no row activated.
C8_OptimalFirstSampleEndsLoop ==
  [][(/\ pc = "sampled" /\ iteration = 0 /\ oracle_calls = 1
      /\ ActiveRows(blp) = {}
      /\ \E j \in 1..Len(X) : IsOptimal(blp, X[j])) =>
       /\ pc' = "FEASIBLE_FOUND"
       /\ result'.found
       /\ ActiveRows(blp') = {}]_vars

\* C11 (as claimed): violationScores[i] is the sum of the occurrence counts
\* of the unique vectors that violate row i, divided by the total count.
C11_ScoresWeightedByCounts ==
  [][(pc = "sampled" /\ pc' = "loop") =>
       \A i \in Rows :
         nu'[i] = ScoreUnit *
           SumTo([j \in 1..Len(X) |->
                    IF Dot(blp.A[i], X[j]) # blp.b[i] THEN sample_counts[j] ELSE 0],
                 Len(X))]_vars

\* C12: for a non-empty batch of unique candidates with positive counts and
\* totalWeight the sum of the counts, every violation score lies in [0,1]
\* (one is ScoreUnit * totalWeight in the units of nu).
C12_ScoresInUnitInterval ==
  /\ pc = "sampled" =>
       LET total == SeqSum(sample_counts, Len(sample_counts))
           scores == get_violation_scores(blp, X, total)
       IN \A i \in Rows : 0 <= scores[i] /\ scores[i] <= ScoreUnit * total
  /\ nu # << >> =>
       \A i \in Rows : 0 <= nu[i] /\ nu[i] <= ScoreUnit * SampleSize

\* the loop computed a score of exactly 1 and a score of 0 in one iteration
C12_Witness ==
  /\ pc = "loop"
  /\ nu # << >>
  /\ \E i \in Rows : nu[i] = ScoreUnit * SampleSize
  /\ \E i \in Rows : nu[i] = 0

Ascending(seq) == \A p, q \in 1..Len(seq) : p < q => seq[p] < seq[q]

\* C13: add_constraints(scores, t) activates exactly the rows that were
\* inactive and have scores[i] >= t, returns exactly those indices in
\* ascending order, never returns an active row and leaves every other row's
\* active/Ahat/bhat as it was.
C13_AddConstraintsExact ==
  /\ \A self \in Instances : \A scores \in [Rows -> ScoreVals] : \A t \in ScoreVals :
       LET r == add_constraints(self, scores, t)
           sel == {i \in Rows : self.active_constraints[i] = 0 /\ scores[i] >= t}
       IN /\ SeqRange(r.new_cstrs) = sel
          /\ Len(r.new_cstrs) = Cardinality(sel)
          /\ Ascending(r.new_cstrs)
          /\ \A i \in sel : /\ r.blp.active_constraints[i] = 1
                            /\ r.blp.Ahat[i] = self.A[i]
                            /\ r.blp.bhat[i] = self.b[i]
          /\ \A i \in Rows \ sel :
               /\ r.blp.active_constraints[i] = self.active_constraints[i]
               /\ r.blp.Ahat[i] = self.Ahat[i]
               /\ r.blp.bhat[i] = self.bhat[i]
          /\ r.blp.A = self.A /\ r.blp.b = self.b /\ r.blp.c = self.c
  /\ Ascending(new_constraints)
  /\ (pc = "loop" /\ new_constraints # << >>) =>
       \A i \in SeqRange(new_constraints) :
         /\ blp.active_constraints[i] = 1
         /\ nu[i] >= Threshold(t_multiplier, SetMax({nu[k] : k \in Rows}))

\* a caller's add_constraints call activated one row and left another inactive
C13_Witness ==
  /\ pc = "idle"
  /\ Len(new_constraints) = 1
  /\ \E self \in Instances :
       /\ self.active_constraints[new_constraints[1]] = 1
       /\ ActiveRows(self) # Rows

\* C14: _add_constraint(i) is idempotent: twice gives the same active, Ahat
\* and bhat as once, and on an active row it changes nothing.
C14_ActivateIdempotent ==
  \A self \in Instances : \A i \in Rows :
    LET once == _add_constraint(self, i)
    IN /\ _add_constraint(once, i) = once
       /\ self.active_constraints[i] # 0 => once = self

\* a row with a non-zero coefficient was activated by _add_constraint while
\* another row is still inactive
C14_Witness ==
  /\ pc = "idle"
  /\ new_constraints = << >>
  /\ cpy = NoCopy
  /\ \E i \in Rows : blp.active_constraints[i] = 1 /\ blp.A[i] # ZeroRow
  /\ ActiveRows(blp) # Rows

\* C15: copy() returns an instance equal to the original in A, b, c, M,
\* active, Ahat and bhat; afterwards a write to either instance leaves every
\* field of the other unchanged; c and M of an instance never change.
C15_CopyEqualAndIndependent ==
  [][/\ (pc = "idle" /\ pc' = "idle" /\ cpy = NoCopy /\ cpy' # NoCopy) =>
          cpy' = blp /\ blp' = blp
     /\ (cpy # NoCopy /\ cpy' # NoCopy) =>
          /\ blp' = blp \/ cpy' = cpy
          /\ cpy'.c = cpy.c /\ cpy'.M = cpy.M
          /\ cpy'.A = cpy.A /\ cpy'.b = cpy.b
     /\ blp'.c = blp.c /\ blp'.M = blp.M
     /\ blp'.A = blp.A /\ blp'.b = blp.b]_vars

\* after the copy was taken, each instance had a different row activated
C15_Witness ==
  /\ pc = "idle"
  /\ cpy # NoCopy
  /\ ActiveRows(blp) # {}
  /\ ActiveRows(cpy) # {}
  /\ ActiveRows(blp) \cap ActiveRows(cpy) = {}

\* c x + M * sum_i ((Ahat x - bhat)_i)^2
PenalisedObjective(self, x) ==
  Dot(self.c, x)
    + self.M * SumTo([i \in Rows |->
                        (Dot(self.Ahat[i], x) - self.bhat[i])
                          * (Dot(self.Ahat[i], x) - self.bhat[i])], NumRows)

\* C16 (as claimed): for every active state and every x, with sigma = 1 - 2x,
\* E(sigma) + const = c x + M * sum_i ((Ahat x - bhat)_i)^2 (both sides in
\* quarters).
C16_EnergyIsPenaltyReduction ==
  [][ising' # ising =>
       \A x \in BitVecs :
         Hamiltonian(ising', [j \in Cols |-> 1 - 2 * x[j]]) + ising'.constant
           = 4 * PenalisedObjective(blp, x)]_vars

\* C17: on a program with no active row, to_ising gives J all-zero, h = c,
\* mu = -1/2 and const = (1/2) * sum_j c_j.
C17_FreshEnergyModel ==
  [][(ising' # ising /\ ActiveRows(blp) = {}) =>
       /\ \A j, k \in Cols : ising'.J[j][k] = 0
       /\ ising'.h = blp.c
       /\ 2 * ising'.mu = -2
       /\ ising'.constant = 2 * SumTo(blp.c, NumCols)]_vars

\* the energy model of a fresh program with a non-zero cost sum was built
C17_Witness ==
  /\ ising # NoIsing
  /\ ActiveRows(blp) = {}
  /\ SumTo(blp.c, NumCols) # 0
  /\ blp.M > 0

\* C18 (as claimed): every x that violates an active row has a penalised
\* objective strictly greater than c y for every y that satisfies all active
\* rows.
C18_ViolationDominates ==
  \A x, y \in BitVecs :
    (/\ \E i \in ActiveRows(blp) : Dot(blp.Ahat[i], x) # blp.bhat[i]
     /\ \A i \in ActiveRows(blp) : Dot(blp.Ahat[i], y) = blp.bhat[i]) =>
      PenalisedObjective(blp, x) > Dot(blp.c, y)

\* C19 (as claimed): reference mode activates all rows, makes exactly one
\* oracle round-trip and one feasibility check, changes the mask no further
\* and returns found = true with the best feasible sample iff the sample set
\* holds a feasible vector, otherwise the not-found result.
C19_ReferenceRunExact ==
  [][/\ (pc = "idle" /\ pc' = "ref_wait") =>
          is_complete(cpy') /\ oracle_calls' = 0
     /\ pc = "ref_wait" =>
          pc' = "ref_sampled" /\ oracle_calls' = 1 /\ cpy' = cpy
     /\ pc = "ref_sampled" =>
          /\ pc' = "ref_done" /\ oracle_calls' = 1
          /\ result'.found <=> HasFeasible(cpy, X)
          /\ result'.found =>
               /\ \E j \in 1..Len(X) : result'.solution = X[j]
               /\ is_feasible(cpy, result'.solution)
               /\ result'.value = Dot(cpy.c, result'.solution)
               /\ \A j \in 1..Len(X) :
                    is_feasible(cpy, X[j]) => result'.value <= Dot(cpy.c, X[j])
          /\ ~result'.found => result' = NotFound]_vars

\* C20: the reference run started by the driver works on its own copy: no
\* step of it changes the caller's instance, so a caller's instance without
\* active rows still has none when the generation loop starts after it.
C20_ReferenceRunLeavesCaller ==
  [][/\ (pc' = "ref_wait" \/ pc \in {"ref_wait", "ref_sampled"}) => blp' = blp
     /\ (pc = "ref_done" /\ pc' = "loop") =>
          blp' = blp /\ cpy' = NoCopy]_vars

\* the reference run has returned a solution and the caller's instance, on
\* which the generation loop starts next, has no active row
C20_Witness ==
  /\ pc = "ref_done"
  /\ result # NoResult
  /\ result.found
  /\ ActiveRows(blp) = {}

\* C21: when the oracle's tune or sample call fails in iteration k, the
\* failure leaves the loop to the caller: the oracle is not invoked again, no
\* feasibility check or activation happens in iteration k, and no not-found
\* result is returned in its place.
C21_OracleFailurePropagates ==
  [][/\ (pc = "loop" /\ pc' = "RAISED") =>
          /\ result'.raised \in {"optimize_circuit", "sample_circuit"}
          /\ blp' = blp /\ iteration' = iteration
          /\ nu' = nu /\ new_constraints' = new_constraints
          /\ X' = X /\ init_params' = init_params
     /\ (pc = "loop" /\ loop_condition(iteration)) => pc' \in {"sampled", "RAISED"}
     /\ pc = "RAISED" => vars' = vars
     /\ pc' = "RAISED" => pc \in {"loop", "RAISED"}]_vars

\* the oracle failed in a later iteration, after a row had been activated
C21_Witness ==
  /\ pc = "RAISED"
  /\ iteration >= 1
  /\ ActiveRows(blp) # {}
  /\ oracle_calls = iteration + 1

\* C24 (as claimed): each iteration's threshold search starts at multiplier
\* 1.0, lowers it after each attempt that activates nothing, stops at the
\* first attempt that activates a row or when the multiplier reaches 0.0,
\* never makes an attempt with multiplier 0.0 and makes at most 10 attempts.
C24_AtMostTenAttempts ==
  [][(pc = "sampled" /\ pc' = "loop") =>
       LET att == threshold_attempts(blp, nu', OneMultiplier)
           maxnu == SetMax({nu'[i] : i \in Rows})
       IN /\ att[1] = OneMultiplier
          /\ \A k \in 1..Len(att) : att[k] > 0
          /\ \A k \in 1..(Len(att) - 1) :
               /\ att[k + 1] < att[k]
               /\ add_constraints(blp, nu', Threshold(att[k], maxnu)).new_cstrs = << >>
          /\ new_constraints'
               = add_constraints(blp, nu', Threshold(att[Len(att)], maxnu)).new_cstrs
          /\ Len(att) <= 10]_vars

\* C25: the QuantumProblem of an iteration is seeded with the loop's
\* init_params unchanged, and the loop's init_params after an iteration are
\* the result.x of that iteration's optimize_circuit, whatever its success
\* flag and whatever the iteration activated; only Start draws them afresh.
C25_ParamsCarriedForward ==
  [][/\ (pc = "loop" /\ pc' = "sampled") =>
          qp'.init_params = init_params /\ init_params' = init_params
     /\ (pc = "sampled" /\ pc' = "loop") => init_params' = qp.result.x
     /\ (pc = "loop" /\ pc' = "loop") => init_params' = init_params
     /\ (pc \in {"idle", "ref_done"} /\ pc' = "loop") => init_params' \in ParamVals]_vars

\* the second iteration was seeded with the parameters an unconverged first
\* iteration returned, and returned other parameters itself
C25_Witness ==
  /\ pc = "sampled"
  /\ iteration = 1
  /\ qp.init_params # qp.result.x

\* C26: the success flag of optimize_circuit has no influence: after the
\* optimisation the loop always goes on to the samples, and what an iteration
\* does with them (activations, terminal state, result, next seed) is a
\* function of the program, the samples and result.x alone.
C26_SuccessFlagIgnored ==
  [][/\ (pc = "loop" /\ loop_condition(iteration)) => pc' = "sampled"
     /\ pc = "sampled" =>
          LET chk == check_feasibility(blp, X)
              r == threshold_search(blp, get_violation_scores(blp, X, SampleSize),
                                    OneMultiplier)
          IN /\ pc' = IF chk.found THEN "FEASIBLE_FOUND"
                      ELSE IF is_complete(blp) THEN "EXHAUSTED_CONSTRAINTS"
                      ELSE "loop"
             /\ blp' = IF pc' = "loop" THEN r.blp ELSE blp
             /\ pc' = "loop" => /\ new_constraints' = r.new_cstrs
                                /\ init_params' = qp.result.x
             /\ pc' = "FEASIBLE_FOUND" => result' = chk
             /\ pc' = "EXHAUSTED_CONSTRAINTS" => result' = NotFound]_vars

\* an iteration whose optimisation did not converge has its samples
C26_Witness ==
  /\ pc = "sampled"
  /\ ~qp.result.success
  /\ X # << >>
  /\ iteration = 0

\* C27: an iteration that reaches the threshold search with max(scores) = 0
\* makes one attempt, with t = 0, which activates every inactive row, so the
\* program is complete and the following iteration ends in FEASIBLE_FOUND or
\* EXHAUSTED_CONSTRAINTS.
C27_ZeroMaxActivatesAllAtOnce ==
  [][/\ (pc = "sampled" /\ pc' = "loop" /\ SetMax({nu'[i] : i \in Rows}) = 0) =>
          /\ threshold_attempts(blp, nu', OneMultiplier) = << OneMultiplier >>
          /\ Threshold(OneMultiplier, 0) = 0
          /\ SeqRange(new_constraints') = Rows \ ActiveRows(blp)
          /\ ActiveRows(blp') = Rows
     /\ (pc = "sampled" /\ iteration >= 1 /\ nu = << >> /\ is_complete(blp)) =>
          pc' \in {"FEASIBLE_FOUND", "EXHAUSTED_CONSTRAINTS"}]_vars

\* all rows of a fresh program were activated at once by all-zero scores
C27_Witness ==
  /\ pc = "loop"
  /\ nu # << >>
  /\ SetMax({nu[i] : i \in Rows}) = 0
  /\ Len(new_constraints) = NumRows

\* the rows the claim says one search activates: the inactive rows with
\* score >= (k/10) * max(scores) for the largest k in 10..1 that gives any
ClaimedActivation(self, scores) ==
  LET maxnu == SetMax({scores[i] : i \in Rows})
      S(k) == {i \in Rows : self.active_constraints[i] = 0
                            /\ 10 * scores[i] >= k * maxnu}
      K == {k \in 1..10 : S(k) # {}}
  IN IF K = {} THEN {} ELSE S(SetMax(K))

\* C28 (as claimed): the rows activated in one iteration are exactly the
\* inactive rows with score >= (k/10) * max(scores) for the largest k in
\* {10,...,1} for which there is such a row, and none if there is no such k.
C28_ActivatedAtNominalThreshold ==
  [][(/\ nu' # << >>
      /\ nu' # nu \/ new_constraints' # new_constraints) =>
       SeqRange(new_constraints') = ClaimedActivation(blp, nu')]_vars

\* C29: no operation deactivates a row, an iteration that activates rows
\* adds that many rows to the active set (so at most m iterations activate),
\* and the loop works on the caller's instance, which keeps the activated
\* rows when the loop has returned.
C29_ActiveSetOnlyGrows ==
  [][/\ ActiveRows(blp) \subseteq ActiveRows(blp')
     /\ (cpy # NoCopy /\ cpy' # NoCopy) => ActiveRows(cpy) \subseteq ActiveRows(cpy')
     /\ (pc = "sampled" /\ pc' = "loop") =>
          /\ Cardinality(ActiveRows(blp'))
               = Cardinality(ActiveRows(blp)) + Len(new_constraints')
          /\ SeqRange(new_constraints') \subseteq ActiveRows(blp')
     /\ (pc \in {"loop", "sampled"} /\ pc' \in Terminal) => blp' = blp]_vars

\* the loop has returned after activating every row over two iterations
C29_Witness ==
  /\ pc = "MAX_ITERS_REACHED"
  /\ iteration = MaxIters
  /\ is_complete(blp)
  /\ Len(new_constraints) = 1

\* the file declares a constraint row whose type is not E
HasNonEqualityRow(lines) ==
  \E k \in 1..Len(lines) :
    Len(lines[k]) = 2 /\ lines[k][1][1] \in OtherRowTypes

\* the file contains a header line that is not exactly a section name
HasMalformedHeader(lines) ==
  \E k \in 1..Len(lines) :
    Len(lines[k]) = 1 /\ lines[k][1][1] \in MalformedHeaders

\* C22 (as claimed): MPS_to_BLP rejects every file that declares a
\* constraint row of another type than equality and every file with a
\* malformed section header; no program is produced from such a file.
C22_RejectsNonEqualityAndBadHeaders ==
  [][(/\ parsed = NoFile
      /\ parsed' # NoFile
      /\ (HasNonEqualityRow(file) \/ HasMalformedHeader(file))) =>
       ~parsed'.ok]_vars

\* C30 (as claimed): for every program with integer A, b, c, parsing the file
\* that toMPS writes succeeds and gives the same m, n, A, b and c, also for
\* columns whose cost is zero.
C30_MpsRoundTrip ==
  [][(parsed = NoFile /\ parsed' # NoFile /\ file = toMPS(blp)) =>
       /\ parsed'.ok
       /\ parsed'.m = NumRows /\ parsed'.n = NumCols
       /\ parsed'.A = blp.A /\ parsed'.b = blp.b /\ parsed'.c = blp.c]_vars

\* some x in {0,1}^n_sets satisfies A x = b for the returned instance
GenHasFeasible(g) ==
  \E x \in [1..g.n_sets -> {0, 1}] :
    \A e \in 1..g.n_elements :
      SumTo([j \in 1..g.n_sets |-> g.A[e][j] * x[j]], g.n_sets) = g.b[e]

\* C23 (as claimed): whatever the accepted parameters and the random choices,
\* the feasibility assertion on the recorded partitions never fails and the
\* instance generate_set_partition_instance returns has a feasible solution.
C23_GeneratedInstanceFeasible ==
  /\ gen # NoGen => gen.at # "assertion_failed"
  /\ (gen # NoGen /\ gen.at = "returned") => GenHasFeasible(gen)
====
